---------------------------- MODULE Spec2Model ----------------------------
(*
  Model of the mock trading dashboard.

  script.js : the in-memory portfolio ledger (state.portfolio), the page that
              shows it, the candle aggregation of the detailed chart and the
              handlers that act on it (openTradeModal, handleTradeExecution).
  data.js   : the simulated datafeed (subscribeBars / unsubscribeBars).

  Numbers.  Money amounts (availableFunds, price, cost) are JavaScript
  numbers; the model keeps them exactly, as integers counted in hundredths
  (214.20 is 21420).  A holding's avgPrice is a quotient, kept as the exact
  fraction [n, d] in lowest terms, in hundredths.  Floating-point rounding is
  not modelled.  NaN is the record Nan.

  Form fields.  document.getElementById('quantity').value and
  document.getElementById('price').value are strings typed by the user; they
  are sequences of one-character strings, and parseInt / parseFloat are
  computed on them character by character.

  Specifications.  Spec is the dashboard page with its clock running;
  SpecLedger is the same page while Date.now() keeps one value; SpecClock and
  SpecScenario are the two with the form filled in as in the scenario of
  three orders on one stock; SpecPage adds navigation, theme, order filters
  and the modals; SpecAggregate is one call of aggregateData; SpecFeed is
  the chart page, where only the datafeed acts.
*)
EXTENDS Integers, Sequences, FiniteSets, TLC

VARIABLES
    availableFunds,   \* state.portfolio.availableFunds, in hundredths
    holdings,         \* state.portfolio.holdings: symbol -> [quantity, avgPrice]
    orders,           \* state.portfolio.orders
    activeTrade,      \* state.ui.activeTrade: [symbol, type]
    alertMsg,         \* text of the last alert() shown by handleTradeExecution
    now,              \* the clock read by Date.now()
    timers,           \* data.js: interval timers started by subscribeBars
    activeModule,     \* state.ui.activeModule
    isDark,           \* state.ui.isDark
    activeChart,      \* state.ui.activeChart.symbol
    tradeModal,       \* style.display of #quick-trade-modal
    orderFilter,      \* values of the three order-filter selects
    ordersTable,      \* rows of #orders-table, top to bottom
    portfolioView,    \* #holdings-table and #remaining-funds as last rendered
    chart             \* one call of aggregateData: its arguments and locals

ledger == <<availableFunds, holdings, orders>>
\* what the page shows and state.ui, apart from the active trade
page == <<activeModule, isDark, activeChart, tradeModal, orderFilter,
          ordersTable, portfolioView>>
vars == <<availableFunds, holdings, orders, activeTrade, alertMsg, now, timers,
          activeModule, isDark, activeChart, tradeModal, orderFilter,
          ordersTable, portfolioView, chart>>

-----------------------------------------------------------------------------
(* Bounds of the model *)

MaxOrders == 3      \* executed orders kept in the history
MaxTime == 1        \* last value of the Date.now() clock
MaxSubs == 2        \* subscribeBars calls
MaxTicks == 2       \* interval ticks counted per timer
MaxBars == 3        \* minute bars given to aggregateData
MaxInterval == 3    \* largest candle interval, in minutes

-----------------------------------------------------------------------------
(* Program constants *)

baseCapital == 10000000      \* 100000.00

NULL == "null"

\* initializeData's stockList, cut down to two of its seven symbols
Symbols == {"AAPL", "MSFT"}

Types == {"BUY", "SELL"}

MsgNone == "none"
MsgInvalid == "Invalid order details."
MsgFunds == "Insufficient funds."
MsgHoldings == "You do not own enough shares to sell."
MsgExecuted == "executed!"

-----------------------------------------------------------------------------
(* JavaScript number parsing *)

Nan == [nan |-> TRUE, v |-> 0]
Num(x) == [nan |-> FALSE, v |-> x]

Digits == {"0", "1", "2", "3", "4", "5", "6", "7", "8", "9"}
IsDigit(c) == c \in Digits
DigitVal(c) ==
    CASE c = "0" -> 0 [] c = "1" -> 1 [] c = "2" -> 2 [] c = "3" -> 3
      [] c = "4" -> 4 [] c = "5" -> 5 [] c = "6" -> 6 [] c = "7" -> 7
      [] c = "8" -> 8 [] c = "9" -> 9
IsSpace(c) == c = " "

\* index of the first character of s at or after i that is not white space
RECURSIVE SkipSpace(_, _)
SkipSpace(s, i) ==
    IF i <= Len(s) /\ IsSpace(s[i]) THEN SkipSpace(s, i + 1) ELSE i

\* number of consecutive digits of s starting at index i
RECURSIVE DigitRun(_, _)
DigitRun(s, i) ==
    IF i <= Len(s) /\ IsDigit(s[i]) THEN 1 + DigitRun(s, i + 1) ELSE 0

\* value of the n digits of s starting at index i
RECURSIVE DigitsValue(_, _, _)
DigitsValue(s, i, n) ==
    IF n = 0 THEN 0
    ELSE DigitsValue(s, i, n - 1) * 10 + DigitVal(s[i + n - 1])

SignAt(s, i) == IF i <= Len(s) /\ s[i] = "-" THEN -1 ELSE 1
AfterSign(s, i) == IF i <= Len(s) /\ (s[i] = "-" \/ s[i] = "+") THEN i + 1 ELSE i

\* parseInt(string): leading white space, a sign, then the longest run of
\* decimal digits; anything after it is ignored; no digit at all gives NaN.
parseInt(s) ==
    LET i == SkipSpace(s, 1)
        j == AfterSign(s, i)
        n == DigitRun(s, j)
    IN  IF n = 0 THEN Nan ELSE Num(SignAt(s, i) * DigitsValue(s, j, n))

\* parseFloat(string), in hundredths: leading white space, a sign, digits,
\* then "." and digits; anything after is ignored; no digit gives NaN.
\* Fraction digits after the second are dropped (the inputs have at most two).
parseFloat(s) ==
    LET i == SkipSpace(s, 1)
        j == AfterSign(s, i)
        n == DigitRun(s, j)
        dot == j + n <= Len(s) /\ s[j + n] = "."
        m == IF dot THEN DigitRun(s, j + n + 1) ELSE 0
        whole == DigitsValue(s, j, n)
        f1 == IF m >= 1 THEN DigitVal(s[j + n + 1]) ELSE 0
        f2 == IF m >= 2 THEN DigitVal(s[j + n + 2]) ELSE 0
    IN  IF n = 0 /\ m = 0 THEN Nan
        ELSE Num(SignAt(s, i) * (whole * 100 + f1 * 10 + f2))

\* !x for a JavaScript number x: NaN and 0 are falsy
Falsy(x) == x.nan \/ x.v = 0

-----------------------------------------------------------------------------
(* Values typed into the trade form *)

QuantityInputs ==
    { <<>>, <<"0">>, <<"-", "1">>, <<"1">>, <<"2">>, <<"2", ".", "5">> }

PriceInputs ==
    { <<>>, <<"0">>, <<"-", "1", ".", "0", "0">>,
      <<"2", "1", "4", ".", "2", "0">>, <<"5", "0", "0", "0", "0">> }

\* the quantity and price fields of three orders on one stock: 10 at 214.20,
\* 5 at 220.00 and 15 at 225.00
ScenarioFields ==
    { << <<"1", "0">>, <<"2", "1", "4", ".", "2", "0">> >>,
      << <<"5">>, <<"2", "2", "0", ".", "0", "0">> >>,
      << <<"1", "5">>, <<"2", "2", "5", ".", "0", "0">> >> }

\* parseInt of the quantity field and parseFloat of the price field, worked
\* out once for each value the fields take
quantityOf ==
    [field \in QuantityInputs \cup {f[1] : f \in ScenarioFields} |->
        parseInt(field)]
priceOf ==
    [field \in PriceInputs \cup {f[2] : f \in ScenarioFields} |->
        parseFloat(field)]

-----------------------------------------------------------------------------
(* Exact quotients, for avgPrice *)

Abs(x) == IF x < 0 THEN -x ELSE x

RECURSIVE GCD(_, _)
GCD(a, b) == IF b = 0 THEN a ELSE GCD(b, a % b)

\* the quotient n / d (d > 0) in lowest terms
Quot(n, d) ==
    LET g == GCD(Abs(n), d)
    IN  [n |-> n \div g, d |-> d \div g]

-----------------------------------------------------------------------------
(* script.js: the initial state *)

InitLedger ==
    /\ availableFunds = baseCapital
    /\ holdings = [s \in {} |-> 0]
    /\ orders = << >>
    /\ activeTrade = [symbol |-> NULL, type |-> "BUY"]
    /\ alertMsg = MsgNone
    /\ now = 0

Held(symbol) == symbol \in DOMAIN holdings

-----------------------------------------------------------------------------
(* script.js: what the page shows *)

\* the modules handleNavClick switches between
Modules == {"watchlist", "orders", "portfolio"}

\* String.prototype.toLowerCase on the texts renderOrders compares
toLowerCase(text) ==
    CASE text = "BUY" -> "buy"
      [] text = "SELL" -> "sell"
      [] text = "Executed" -> "executed"
      [] OTHER -> text

\* values of #order-stock-filter, #order-type-filter, #order-status-filter
OrderFilters ==
    { [stock |-> "all", type |-> "all", status |-> "all"],
      [stock |-> "AAPL", type |-> "all", status |-> "executed"],
      [stock |-> "all", type |-> "sell", status |-> "all"] }

\* the test of renderOrders' filter()
Matches(order, filter) ==
    /\ filter.stock = "all" \/ order.symbol = filter.stock
    /\ filter.type = "all" \/ toLowerCase(order.type) = filter.type
    /\ filter.status = "all" \/ toLowerCase(order.status) = filter.status

Reverse(seq) == [i \in 1..Len(seq) |-> seq[Len(seq) + 1 - i]]

\* renderOrders: filter() builds a new array and each of its rows is
\* prepended to the table, so the table shows the newest order first
OrderRows(history, filter) ==
    Reverse(SelectSeq(history, LAMBDA order : Matches(order, filter)))

\* renderPortfolio (with renderSectorChart): one row per key of holdings,
\* each reading state.stocks[symbol].price, then the remaining funds.  For a
\* key that state.stocks does not have, stock.price throws a TypeError and
\* the funds text stays as it was.
PortfolioRows(held, funds) ==
    IF DOMAIN held \subseteq Symbols
    THEN [rows |-> [s \in DOMAIN held |-> held[s].quantity],
          funds |-> funds, thrown |-> FALSE]
    ELSE [rows |-> [s \in DOMAIN held \cap Symbols |-> held[s].quantity],
          funds |-> portfolioView.funds, thrown |-> TRUE]

InitPage ==
    /\ activeModule = "watchlist"
    /\ isDark = FALSE
    /\ activeChart = NULL
    /\ tradeModal = "none"
    /\ orderFilter = [stock |-> "all", type |-> "all", status |-> "all"]
    /\ ordersTable = << >>
    /\ portfolioView = PortfolioRows([s \in {} |-> 0], baseCapital)

\* handleNavClick on the nav link of module target
handleNavClick(target) ==
    /\ IF target = activeModule
       THEN UNCHANGED <<activeModule, ordersTable, portfolioView>>
       ELSE /\ activeModule' = target
            /\ portfolioView' = IF target = "portfolio"
                                THEN PortfolioRows(holdings, availableFunds)
                                ELSE portfolioView
            /\ ordersTable' = IF target = "orders"
                              THEN OrderRows(orders, orderFilter)
                              ELSE ordersTable
    /\ UNCHANGED <<availableFunds, holdings, orders, activeTrade, alertMsg, now,
                   timers, chart, isDark, activeChart, tradeModal, orderFilter>>

\* change of #theme-toggle: renderAll follows
ThemeToggle(checked) ==
    /\ isDark' = checked
    /\ ordersTable' = OrderRows(orders, orderFilter)
    /\ portfolioView' = PortfolioRows(holdings, availableFunds)
    /\ UNCHANGED <<availableFunds, holdings, orders, activeTrade, alertMsg, now,
                   timers, chart, activeModule, activeChart, tradeModal, orderFilter>>

\* renderOrders putting orders.reverse() into the table
OrderFilterChangeReversing(filter) ==
    /\ orderFilter' = filter
    /\ orders' = Reverse(orders)
    /\ ordersTable' = SelectSeq(orders', LAMBDA order : Matches(order, filter))
    /\ UNCHANGED <<availableFunds, holdings, activeTrade, alertMsg, now,
                   timers, chart, activeModule, isDark, activeChart, tradeModal,
                   portfolioView>>

\* change of one of the order-filter selects: renderOrders follows
OrderFilterChange(filter) ==
    /\ orderFilter' = filter
    /\ ordersTable' = OrderRows(orders, filter)
    /\ UNCHANGED <<availableFunds, holdings, orders, activeTrade, alertMsg, now,
                   timers, chart, activeModule, isDark, activeChart, tradeModal,
                   portfolioView>>

\* openChartModal(symbol) and closeChartModal; #chart-modal is displayed
\* exactly while activeChart holds a symbol
openChartModal(symbol) ==
    /\ activeChart' = symbol
    /\ UNCHANGED <<availableFunds, holdings, orders, activeTrade, alertMsg, now,
                   timers, chart, activeModule, isDark, tradeModal, orderFilter,
                   ordersTable, portfolioView>>

closeChartModal ==
    /\ activeChart' = NULL
    /\ UNCHANGED <<availableFunds, holdings, orders, activeTrade, alertMsg, now,
                   timers, chart, activeModule, isDark, tradeModal, orderFilter,
                   ordersTable, portfolioView>>

closeTradeModal ==
    /\ tradeModal' = "none"
    /\ UNCHANGED <<availableFunds, holdings, orders, activeTrade, alertMsg, now,
                   timers, chart, activeModule, isDark, activeChart, orderFilter,
                   ordersTable, portfolioView>>

NavClick == \E target \in Modules : handleNavClick(target)
ThemeChange == \E checked \in BOOLEAN : ThemeToggle(checked)
FilterChange == \E filter \in OrderFilters : OrderFilterChange(filter)
ChartClick == \E symbol \in Symbols : openChartModal(symbol)

-----------------------------------------------------------------------------
(* script.js: opening the trade form *)

\* openTradeModal(symbol, type): nothing happens for a symbol that is not in
\* state.stocks; otherwise the symbol and side become the active trade.
openTradeModal(symbol, type) ==
    /\ activeTrade' = IF symbol \in Symbols
                      THEN [symbol |-> symbol, type |-> type]
                      ELSE activeTrade
    /\ tradeModal' = IF symbol \in Symbols THEN "flex" ELSE tradeModal
    /\ UNCHANGED <<availableFunds, holdings, orders, alertMsg, now, timers, chart,
                   activeModule, isDark, activeChart, orderFilter,
                   ordersTable, portfolioView>>

\* click on a BUY or SELL button of a watchlist row
WatchlistClick == \E symbol \in Symbols, type \in Types : openTradeModal(symbol, type)

\* click on one of the .btn-trade buttons inside the trade form
TradeTypeClick == \E type \in Types : openTradeModal(activeTrade.symbol, type)

-----------------------------------------------------------------------------
(* script.js: handleTradeExecution *)

\* OrderRecord with price and quantity in each other's place
OrderRecordSwapped(symbol, type, price, quantity) ==
    [symbol |-> symbol, type |-> type, price |-> quantity, quantity |-> price,
     status |-> "Executed", timestamp |-> now]

\* the order record pushed onto state.portfolio.orders
OrderRecord(symbol, type, price, quantity) ==
    [symbol |-> symbol, type |-> type, price |-> price, quantity |-> quantity,
     status |-> "Executed", timestamp |-> now]

\* BuyHoldings with the average taken over the quantity after the trade
BuyHoldingsPostQuantity(symbol, price, quantity) ==
    LET cost == price * quantity
    IN  IF Held(symbol)
        THEN LET h == holdings[symbol]
                 q == h.quantity + quantity
                 avg == Quot(h.avgPrice.n * q + cost * h.avgPrice.d,
                             h.avgPrice.d * (q + quantity))
             IN  [holdings EXCEPT ![symbol] = [quantity |-> q, avgPrice |-> avg]]
        ELSE [s \in DOMAIN holdings \cup {symbol} |->
                 IF s = symbol
                 THEN [quantity |-> quantity, avgPrice |-> [n |-> price, d |-> 1]]
                 ELSE holdings[s]]

\* BuyHoldings taking the else branch for a held symbol as well
BuyHoldingsOverwriting(symbol, price, quantity) ==
    [s \in DOMAIN holdings \cup {symbol} |->
        IF s = symbol
        THEN [quantity |-> quantity, avgPrice |-> [n |-> price, d |-> 1]]
        ELSE holdings[s]]

\* BUY branch, holdings after the trade
BuyHoldings(symbol, price, quantity) ==
    LET cost == price * quantity
    IN  IF Held(symbol)
        THEN LET h == holdings[symbol]
                 avg == Quot(h.avgPrice.n * h.quantity + cost * h.avgPrice.d,
                             h.avgPrice.d * (h.quantity + quantity))
             IN  [holdings EXCEPT ![symbol] =
                     [quantity |-> h.quantity + quantity, avgPrice |-> avg]]
        ELSE [s \in DOMAIN holdings \cup {symbol} |->
                 IF s = symbol
                 THEN [quantity |-> quantity, avgPrice |-> [n |-> price, d |-> 1]]
                 ELSE holdings[s]]

\* SellHoldings without the delete of an emptied holding
SellHoldingsKeepEmpty(symbol, quantity) ==
    [holdings EXCEPT ![symbol].quantity = @ - quantity]

\* SellHoldings spreading the cost of the whole holding over what is left
SellHoldingsRebased(symbol, quantity) ==
    LET h == holdings[symbol]
        left == h.quantity - quantity
    IN  IF left = 0
        THEN [s \in DOMAIN holdings \ {symbol} |-> holdings[s]]
        ELSE [holdings EXCEPT ![symbol] =
                 [quantity |-> left,
                  avgPrice |-> Quot(h.avgPrice.n * h.quantity,
                                    h.avgPrice.d * left)]]

\* SellHoldings emptying the holdings object when a holding is sold out
SellHoldingsClearing(symbol, quantity) ==
    LET left == holdings[symbol].quantity - quantity
    IN  IF left = 0
        THEN [s \in {} |-> 0]
        ELSE [holdings EXCEPT ![symbol].quantity = left]

\* SELL branch, holdings after the trade
SellHoldings(symbol, quantity) ==
    LET left == holdings[symbol].quantity - quantity
    IN  IF left = 0
        THEN [s \in DOMAIN holdings \ {symbol} |-> holdings[s]]
        ELSE [holdings EXCEPT ![symbol].quantity = left]

\* InvalidDetails without the test of the symbol
InvalidDetailsAnySymbol(symbol, quantity, price) ==
    Falsy(quantity) \/ Falsy(price) \/ quantity.v <= 0

\* the first guard of handleTradeExecution
InvalidDetails(symbol, quantity, price) ==
    symbol = NULL \/ Falsy(quantity) \/ Falsy(price) \/ quantity.v <= 0

\* InsufficientFunds with <= for <
InsufficientFundsOrEqual(price, quantity) == availableFunds <= price * quantity

InsufficientFunds(price, quantity) == availableFunds < price * quantity

\* InsufficientShares with <= for <
InsufficientSharesOrEqual(symbol, quantity) ==
    ~Held(symbol) \/ holdings[symbol].quantity <= quantity

\* InsufficientShares without the comparison of quantities
InsufficientSharesNoHolding(symbol, quantity) == ~Held(symbol)

InsufficientShares(symbol, quantity) ==
    ~Held(symbol) \/ holdings[symbol].quantity < quantity

Reject(msg) ==
    /\ alertMsg' = msg
    /\ UNCHANGED <<availableFunds, holdings, orders>>
    /\ UNCHANGED page

\* BuyFunds with the price of one share for the cost
BuyFundsOneShare(price, quantity) == availableFunds - price

\* SellFunds taking the proceeds away
SellFundsDebit(price, quantity) == availableFunds - price * quantity

\* availableFunds after a BUY and after a SELL
BuyFunds(price, quantity) == availableFunds - price * quantity
SellFunds(price, quantity) == availableFunds + price * quantity

\* the record put first, as unshift would
UnshiftOrder(record) == <<record>> \o orders

\* state.portfolio.orders.push(record)
PushOrder(record) == Append(orders, record)

\* a trade goes through; closeTradeModal and renderAll end the handler
Execute(funds, held, record) ==
    /\ availableFunds' = funds
    /\ holdings' = held
    /\ orders' = PushOrder(record)
    /\ alertMsg' = MsgExecuted
    /\ tradeModal' = "none"
    /\ ordersTable' = OrderRows(orders', orderFilter)
    /\ portfolioView' = PortfolioRows(held, funds)
    /\ UNCHANGED <<activeModule, isDark, activeChart, orderFilter>>

\* the submit handler of the trade form, with the form showing quantityField
\* and priceField
Submit(quantityField, priceField) ==
    LET symbol == activeTrade.symbol
        type == activeTrade.type
        quantity == quantityOf[quantityField]
        price == priceOf[priceField]
    IN  /\ Len(orders) < MaxOrders
        /\ IF InvalidDetails(symbol, quantity, price)
           THEN Reject(MsgInvalid)
           ELSE IF type = "BUY"
           THEN IF InsufficientFunds(price.v, quantity.v)
                THEN Reject(MsgFunds)
                ELSE Execute(BuyFunds(price.v, quantity.v),
                             BuyHoldings(symbol, price.v, quantity.v),
                             OrderRecord(symbol, type, price.v, quantity.v))
           ELSE IF InsufficientShares(symbol, quantity.v)
                THEN Reject(MsgHoldings)
                ELSE Execute(SellFunds(price.v, quantity.v),
                             SellHoldings(symbol, quantity.v),
                             OrderRecord(symbol, type, price.v, quantity.v))
        /\ UNCHANGED <<activeTrade, now, timers, chart>>

handleTradeExecution ==
    \E quantityField \in QuantityInputs, priceField \in PriceInputs :
        Submit(quantityField, priceField)

\* time passes: Date.now() never runs backwards
Tick ==
    /\ now < MaxTime
    /\ now' = now + 1
    /\ UNCHANGED <<availableFunds, holdings, orders, activeTrade, alertMsg, timers>>
    /\ UNCHANGED chart
    /\ UNCHANGED page

-----------------------------------------------------------------------------
(* data.js: subscribeBars / unsubscribeBars *)

SubscriberUIDs == {"uid1", "uid2"}

InitFeed == timers = << >>

\* subscribeBars: setInterval starts a timer whose handle is not kept.
\* Each timer carries, for the record, the subscriberUID it was started for,
\* whether unsubscribeBars has since been called with that subscriberUID,
\* and the number of times its tick has invoked onRealtimeCallback.
subscribeBars(subscriberUID) ==
    /\ Len(timers) < MaxSubs
    /\ timers' = Append(timers,
                    [uid |-> subscriberUID, unsubscribed |-> FALSE, bars |-> 0])
    /\ UNCHANGED <<availableFunds, holdings, orders, activeTrade, alertMsg, now>>
    /\ UNCHANGED chart
    /\ UNCHANGED page

\* unsubscribeBars: console.log only; no timer is cleared.
unsubscribeBars(subscriberUID) ==
    /\ timers' = [i \in DOMAIN timers |->
                    IF timers[i].uid = subscriberUID
                    THEN [timers[i] EXCEPT !.unsubscribed = TRUE]
                    ELSE timers[i]]
    /\ UNCHANGED <<availableFunds, holdings, orders, activeTrade, alertMsg, now>>
    /\ UNCHANGED chart
    /\ UNCHANGED page

\* the interval callback of timer i runs: onRealtimeCallback(lastBar)
IntervalTick(i) ==
    /\ timers[i].bars < MaxTicks
    /\ timers' = [timers EXCEPT ![i].bars = @ + 1]
    /\ UNCHANGED <<availableFunds, holdings, orders, activeTrade, alertMsg, now>>
    /\ UNCHANGED chart
    /\ UNCHANGED page

Subscribe == \E u \in SubscriberUIDs : subscribeBars(u)
Unsubscribe == \E u \in SubscriberUIDs : unsubscribeBars(u)
TimerFires == \E i \in DOMAIN timers : IntervalTick(i)

-----------------------------------------------------------------------------
(* script.js: aggregateData *)

MsPerMinute == 60000

\* prices and volumes of the generated bars, and the times of the first bar
BarPrices == {1, 2}
BarVolumes == {1, 2}
BarStarts == {0, 60000, 90000}

Max(S) == CHOOSE x \in S : \A y \in S : y <= x
Min(S) == CHOOSE x \in S : \A y \in S : x <= y

\* generateMockStockData's minuteData: one bar a minute, each opening at the
\* close of the bar before, with high and low around open and close
MinuteData(start, picks) ==
    [k \in DOMAIN picks |->
        LET open == IF k = 1 THEN 1 ELSE picks[k - 1].c
            close == picks[k].c
        IN  [t |-> start + (k - 1) * MsPerMinute,
             o |-> open,
             h |-> Max({open, close}) + picks[k].up,
             l |-> Min({open, close}),
             c |-> close,
             v |-> picks[k].v]]

\* what generateMockStockData draws for one bar
BarPicks == [c : BarPrices, up : {0, 1}, v : BarVolumes]

\* parseInt of #candle-interval-selector
Intervals == {Nan} \cup {Num(n) : n \in 0..MaxInterval}

\* Math.floor(t / intervalMillis) * intervalMillis
CandleTime(t, interval) ==
    LET intervalMillis == interval * MsPerMinute
    IN  (t \div intervalMillis) * intervalMillis

\* data.filter(...): the bars of the candle of data[i]; comparing with a NaN
\* candleTime is false for every bar
Group(data, interval, i) ==
    IF interval.nan
    THEN << >>
    ELSE SelectSeq(data, LAMBDA d :
             CandleTime(d.t, interval.v) = CandleTime(data[i + 1].t, interval.v))

RECURSIVE SumVolume(_)
SumVolume(bars) ==
    IF bars = << >> THEN 0 ELSE Head(bars).v + SumVolume(Tail(bars))

\* Candle closing at the close of the first bar of the group
CandleFirstClose(group) ==
    [t |-> group[1].t,
     o |-> group[1].o,
     h |-> Max({group[k].h : k \in DOMAIN group}),
     l |-> Min({group[k].l : k \in DOMAIN group}),
     c |-> group[1].c,
     v |-> SumVolume(group)]

\* the candle pushed for a group of bars
Candle(group) ==
    [t |-> group[1].t,
     o |-> group[1].o,
     h |-> Max({group[k].h : k \in DOMAIN group}),
     l |-> Min({group[k].l : k \in DOMAIN group}),
     c |-> group[Len(group)].c,
     v |-> SumVolume(group)]

\* no call of aggregateData is under way
InitChart ==
    chart = [data |-> << >>, interval |-> Num(1), i |-> 0,
             aggregated |-> << >>, returned |-> << >>, pc |-> "none"]

frame == <<availableFunds, holdings, orders, activeTrade, alertMsg, now, timers,
           activeModule, isDark, activeChart, tradeModal, orderFilter,
           ordersTable, portfolioView>>

\* aggregateData(data, interval) is called
InitAggregate ==
    \E n \in 1..MaxBars, start \in BarStarts, interval \in Intervals :
        \E picks \in [1..n -> BarPicks] :
            chart = [data |-> MinuteData(start, picks), interval |-> interval,
                     i |-> 0, aggregated |-> << >>, returned |-> << >>,
                     pc |-> "call"]

\* if (interval <= 1) return data; otherwise the loop is entered
AggregateEnter ==
    /\ chart.pc = "call"
    /\ chart' = IF ~chart.interval.nan /\ chart.interval.v <= 1
                THEN [chart EXCEPT !.returned = chart.data, !.pc = "done"]
                ELSE [chart EXCEPT !.pc = "loop"]
    /\ UNCHANGED frame

\* one turn of while (i < data.length)
AggregateStep ==
    /\ chart.pc = "loop"
    /\ chart.i < Len(chart.data)
    /\ LET group == Group(chart.data, chart.interval, chart.i)
       IN  chart' = IF Len(group) > 0
                    THEN [chart EXCEPT
                             !.aggregated = Append(@, Candle(group)),
                             !.i = @ + Len(group)]
                    ELSE [chart EXCEPT !.i = @ + 1]
    /\ UNCHANGED frame

\* the loop is left: return aggregated
AggregateReturn ==
    /\ chart.pc = "loop"
    /\ chart.i >= Len(chart.data)
    /\ chart' = [chart EXCEPT !.returned = chart.aggregated, !.pc = "done"]
    /\ UNCHANGED frame

-----------------------------------------------------------------------------
(* Specifications *)

\* the dashboard page (script.js)
Init == InitLedger /\ InitFeed /\ InitPage /\ InitChart
Next == WatchlistClick \/ TradeTypeClick \/ handleTradeExecution \/ Tick
Spec == Init /\ [][Next]_vars

\* the dashboard page during one reading of the clock: handleTradeExecution
\* only writes Date.now() into the record it pushes and never reads it back
NextLedger == WatchlistClick \/ TradeTypeClick \/ handleTradeExecution
SpecLedger == Init /\ [][NextLedger]_vars

\* the dashboard page with everything the user can click, trading one share
\* at a time at the price openTradeModal put into the form
QuickTrade == Submit(<<"1">>, <<"2", "1", "4", ".", "2", "0">>)
NextPage ==
    \/ WatchlistClick \/ TradeTypeClick \/ QuickTrade \/ closeTradeModal
    \/ NavClick \/ ThemeChange \/ FilterChange
    \/ ChartClick \/ closeChartModal
SpecPage == Init /\ [][NextPage]_vars

\* the dashboard page with the form filled in as ScenarioFields says
ScenarioTrade == \E fields \in ScenarioFields : Submit(fields[1], fields[2])
NextScenario == WatchlistClick \/ TradeTypeClick \/ ScenarioTrade
SpecScenario == Init /\ [][NextScenario]_vars

\* the dashboard page with its clock running and the form filled in as
\* ScenarioFields says
NextClock == WatchlistClick \/ TradeTypeClick \/ ScenarioTrade \/ Tick
SpecClock == Init /\ [][NextClock]_vars

\* one call of aggregateData by drawDetailedChart, on any minute data and
\* interval
NextAggregate == AggregateEnter \/ AggregateStep \/ AggregateReturn
InitCall == InitLedger /\ InitFeed /\ InitPage /\ InitAggregate
SpecAggregate == InitCall /\ [][NextAggregate]_vars

\* the chart page (chart.js with the datafeed of data.js)
NextFeed == Subscribe \/ Unsubscribe \/ TimerFires
SpecFeed == Init /\ [][NextFeed]_vars

-----------------------------------------------------------------------------
(* What the specification of executeOrder calls a well-formed order *)

Rejections == {MsgInvalid, MsgFunds, MsgHoldings}

\* the decimal number a form field shows, in hundredths
Shown == [field \in QuantityInputs \cup PriceInputs |-> parseFloat(field)]
Typed(field) == Shown[field]

\* the pairs of field values that show a strictly positive integer quantity
\* and a strictly positive price
WellFormedFields ==
    UNION { IF /\ ~Typed(f[1]).nan
               /\ ~Typed(f[2]).nan
               /\ Typed(f[1]).v > 0
               /\ Typed(f[2]).v > 0
               /\ Typed(f[1]).v % 100 = 0
            THEN {f} ELSE {} : f \in QuantityInputs \X PriceInputs }

\* InvalidOrder: quantity <= 0, price <= 0, or quantity not an integer
\* (a field that shows no number, or no symbol chosen, is invalid as well)
SpecInvalidOrder(quantityField, priceField) ==
    \/ activeTrade.symbol = NULL
    \/ <<quantityField, priceField>> \notin WellFormedFields

\* price and quantity of a well-formed order
P(priceField) == Typed(priceField).v
Q(quantityField) == Typed(quantityField).v \div 100

Sides(type) == {i \in DOMAIN orders : orders[i].type = type}

RECURSIVE SumValue(_)
SumValue(S) ==
    IF S = {} THEN 0
    ELSE LET i == CHOOSE x \in S : TRUE
         IN  orders[i].price * orders[i].quantity + SumValue(S \ {i})

-----------------------------------------------------------------------------
(* C1 *)

\* C1 (as claimed): a submission that fails a precondition of executeOrder
\* (an invalid order, a BUY costing more than the available funds, a SELL of
\* more than is held) leaves availableFunds, holdings and orders as they were.
\* Violated: a negative price, or a quantity such as 2.5, passes the guard of
\* handleTradeExecution and the order is executed (see C3).
C1_RejectedLeavesLedger ==
    [][\A quantityField \in QuantityInputs, priceField \in PriceInputs :
         ( /\ Submit(quantityField, priceField)
           /\ \/ SpecInvalidOrder(quantityField, priceField)
              \/ /\ activeTrade.type = "BUY"
                 /\ availableFunds < P(priceField) * Q(quantityField)
              \/ /\ activeTrade.type = "SELL"
                 /\ InsufficientShares(activeTrade.symbol, Q(quantityField)) )
         => UNCHANGED ledger]_vars

-----------------------------------------------------------------------------
(* C2 *)

\* C2: availableFunds is baseCapital minus the value of the executed BUY
\* orders plus the value of the executed SELL orders of the history, and an
\* execution moves availableFunds by exactly price x quantity of its record.
FundsConserved ==
    availableFunds = baseCapital - SumValue(Sides("BUY")) + SumValue(Sides("SELL"))

CashMovesByOrderValue ==
    orders' # orders =>
        LET r == orders'[Len(orders')]
        IN  /\ r.type = "BUY" => availableFunds' = availableFunds - r.price * r.quantity
            /\ r.type = "SELL" => availableFunds' = availableFunds + r.price * r.quantity

C2_FundsConservation == []FundsConserved /\ [][CashMovesByOrderValue]_vars

\* a history with a BUY and a SELL, followed by a rejected submission
C2_Witness ==
    /\ Sides("BUY") # {}
    /\ Sides("SELL") # {}
    /\ alertMsg \in Rejections
    /\ availableFunds # baseCapital

-----------------------------------------------------------------------------
(* C3 *)

\* C3 (as claimed): a submission whose quantity is <= 0, whose price is <= 0
\* or whose quantity is not an integer is rejected with "Invalid order
\* details." and changes nothing.
\* Violated: parseInt("2.5") is 2 and the guard tests !price, not price <= 0.
C3_InvalidOrderRejected ==
    [][\A quantityField \in QuantityInputs, priceField \in PriceInputs :
         ( /\ Submit(quantityField, priceField)
           /\ SpecInvalidOrder(quantityField, priceField) )
         => (alertMsg' = MsgInvalid /\ UNCHANGED ledger)]_vars

-----------------------------------------------------------------------------
(* C4 *)

\* C4: a well-formed BUY is rejected with "Insufficient funds." exactly when
\* availableFunds < price x quantity; otherwise (a cost equal to the funds
\* included) it is executed and recorded.
C4_BuyFundsCheck ==
    [][\A f \in WellFormedFields :
        LET quantityField == f[1]
            priceField == f[2]
        IN
         ( /\ activeTrade.type = "BUY"
           /\ activeTrade.symbol # NULL
           /\ Submit(quantityField, priceField) )
         => IF availableFunds < P(priceField) * Q(quantityField)
            THEN alertMsg' = MsgFunds /\ UNCHANGED ledger
            ELSE /\ alertMsg' = MsgExecuted
                 /\ Len(orders') = Len(orders) + 1
                 /\ orders'[Len(orders')].type = "BUY"
                 /\ orders'[Len(orders')].symbol = activeTrade.symbol
                 /\ orders'[Len(orders')].price = P(priceField)
                 /\ orders'[Len(orders')].quantity = Q(quantityField)
                 /\ availableFunds' = availableFunds - P(priceField) * Q(quantityField)]_vars

\* a BUY costing exactly the available funds was executed, and the next BUY
\* was refused for lack of funds
C4_Witness ==
    /\ availableFunds = 0
    /\ Len(orders) = 1
    /\ orders[1].type = "BUY"
    /\ orders[1].price * orders[1].quantity = baseCapital
    /\ alertMsg = MsgFunds

-----------------------------------------------------------------------------
(* C5 *)

\* C5: a well-formed SELL is rejected with "You do not own enough shares to
\* sell." exactly when the symbol has no holding or the held quantity is
\* smaller than the order quantity; otherwise it is executed and recorded.
C5_SellHoldingsCheck ==
    [][\A f \in WellFormedFields :
        LET quantityField == f[1]
            priceField == f[2]
        IN
         ( /\ activeTrade.type = "SELL"
           /\ activeTrade.symbol # NULL
           /\ Submit(quantityField, priceField) )
         => IF \/ activeTrade.symbol \notin DOMAIN holdings
               \/ holdings[activeTrade.symbol].quantity < Q(quantityField)
            THEN alertMsg' = MsgHoldings /\ UNCHANGED ledger
            ELSE /\ alertMsg' = MsgExecuted
                 /\ Len(orders') = Len(orders) + 1
                 /\ orders'[Len(orders')].type = "SELL"
                 /\ orders'[Len(orders')].symbol = activeTrade.symbol
                 /\ orders'[Len(orders')].quantity = Q(quantityField)
                 /\ availableFunds' = availableFunds + P(priceField) * Q(quantityField)]_vars

\* every symbol is held with quantity 1 and the last submission, a SELL, was
\* refused: it asked for more than the held quantity
C5_Witness ==
    /\ alertMsg = MsgHoldings
    /\ \A s \in Symbols : s \in DOMAIN holdings /\ holdings[s].quantity = 1

-----------------------------------------------------------------------------
(* C6 *)

LastOrder(history) == history[Len(history)]

\* the orders of the history for a symbol
OrdersOf(symbol) == {i \in DOMAIN orders : orders[i].symbol = symbol}

RECURSIVE SumQuantity(_)
SumQuantity(S) ==
    IF S = {} THEN 0
    ELSE LET i == CHOOSE x \in S : TRUE
         IN  orders[i].quantity + SumQuantity(S \ {i})

\* an executed BUY of q at p: a symbol with no holding gets {q, p}; a held
\* symbol gets quantity oldQty + q and avgPrice
\* (oldAvg x oldQty + p x q) / (oldQty + q)
BuyUpdatesHolding ==
    (orders' # orders /\ LastOrder(orders').type = "BUY") =>
        LET r == LastOrder(orders')
            s == r.symbol
        IN  /\ s \in DOMAIN holdings'
            /\ IF s \notin DOMAIN holdings
               THEN /\ holdings'[s].quantity = r.quantity
                    /\ holdings'[s].avgPrice = [n |-> r.price, d |-> 1]
               ELSE LET old == holdings[s]
                        new == holdings'[s]
                    IN  /\ new.quantity = old.quantity + r.quantity
                        /\ new.avgPrice.d > 0
                        /\ new.avgPrice.n * old.avgPrice.d * (old.quantity + r.quantity)
                             = new.avgPrice.d * (old.avgPrice.n * old.quantity
                                                 + r.price * r.quantity * old.avgPrice.d)

\* a symbol bought and never sold is held at the value-weighted average of
\* its buys: avgPrice x (q1 + q2 + ...) = p1 x q1 + p2 x q2 + ...
BoughtOnlyAverage ==
    \A s \in Symbols :
        (OrdersOf(s) # {} /\ OrdersOf(s) \cap Sides("SELL") = {}) =>
            /\ s \in DOMAIN holdings
            /\ holdings[s].quantity = SumQuantity(OrdersOf(s))
            /\ holdings[s].avgPrice.n * SumQuantity(OrdersOf(s))
                 = holdings[s].avgPrice.d * SumValue(OrdersOf(s))

\* C6: the effect of a successful BUY on the holding of its symbol, and the
\* average price after two buys from an empty position.
C6_BuyHolding == []BoughtOnlyAverage /\ [][BuyUpdatesHolding]_vars

\* one symbol bought twice, at two prices, and not sold
C6_Witness ==
    /\ Len(orders) = 2
    /\ orders[1].type = "BUY" /\ orders[2].type = "BUY"
    /\ orders[1].symbol = orders[2].symbol
    /\ orders[1].price > 0 /\ orders[2].price > orders[1].price
    /\ holdings[orders[1].symbol].quantity = orders[1].quantity + orders[2].quantity

-----------------------------------------------------------------------------
(* C7 *)

\* the position in the symbol was closed: the last order for it is a SELL and
\* it is not held
Closed(symbol) ==
    /\ symbol \notin DOMAIN holdings
    /\ OrdersOf(symbol) # {}
    /\ \A i \in OrdersOf(symbol) :
           (\A j \in OrdersOf(symbol) : j <= i) => orders[i].type = "SELL"

\* a SELL of the whole held quantity removes the entry
FullSellRemoves ==
    (orders' # orders /\ LastOrder(orders').type = "SELL") =>
        LET r == LastOrder(orders')
        IN  (r.symbol \in DOMAIN holdings /\ r.quantity = holdings[r.symbol].quantity)
                => r.symbol \notin DOMAIN holdings'

\* a well-formed SELL of a closed position is refused
SellAfterCloseRefused ==
    \A f \in WellFormedFields :
        ( /\ activeTrade.type = "SELL"
          /\ Closed(activeTrade.symbol)
          /\ Submit(f[1], f[2]) )
        => (alertMsg' = MsgHoldings /\ UNCHANGED ledger)

\* a BUY of a closed position starts from the price of that BUY
BuyAfterCloseIsFresh ==
    (orders' # orders /\ LastOrder(orders').type = "BUY") =>
        LET r == LastOrder(orders')
        IN  Closed(r.symbol) =>
                holdings'[r.symbol] =
                    [quantity |-> r.quantity, avgPrice |-> [n |-> r.price, d |-> 1]]

\* C7: selling the whole held quantity removes the holding; until the symbol
\* is bought again a SELL of it is refused for lack of shares; the next BUY
\* starts a holding whose avgPrice is the price of that BUY.
C7_HoldingRemoval ==
    [][FullSellRemoves /\ SellAfterCloseRefused /\ BuyAfterCloseIsFresh]_vars

\* bought, sold entirely, then bought again at another price
C7_Witness ==
    /\ Len(orders) = 3
    /\ orders[1].type = "BUY" /\ orders[2].type = "SELL" /\ orders[3].type = "BUY"
    /\ orders[1].symbol = orders[2].symbol /\ orders[2].symbol = orders[3].symbol
    /\ orders[1].quantity = orders[2].quantity
    /\ orders[3].price # orders[1].price
    /\ holdings[orders[3].symbol].avgPrice = [n |-> orders[3].price, d |-> 1]

-----------------------------------------------------------------------------
(* C8 *)

\* C8: every entry of holdings has a strictly positive integer quantity.
C8_PositiveQuantities ==
    \A s \in DOMAIN holdings : holdings[s].quantity \in Nat \ {0}

\* a holding that was partly sold
C8_Witness ==
    /\ Sides("SELL") # {}
    /\ \E i \in Sides("SELL") :
           /\ orders[i].symbol \in DOMAIN holdings
           /\ \A j \in OrdersOf(orders[i].symbol) : j <= i

-----------------------------------------------------------------------------
(* C9 *)

\* the records already in the history keep their place and their fields
HistoryKept ==
    \/ orders' = orders
    \/ /\ Len(orders') = Len(orders) + 1
       /\ SubSeq(orders', 1, Len(orders)) = orders

\* a step that changes funds or holdings, or shows the executed alert anew,
\* appends one record; a step that ends on a rejection appends none
OnePerExecution ==
    /\ ( \/ availableFunds' # availableFunds
         \/ holdings' # holdings
         \/ (alertMsg' = MsgExecuted /\ alertMsg # MsgExecuted) )
       => Len(orders') = Len(orders) + 1
    /\ alertMsg' \in Rejections => orders' = orders

\* C9: the order history is append-only.
C9_AppendOnly == [][HistoryKept /\ OnePerExecution]_vars

\* a second record was appended after a different first one, then a
\* submission was refused
C9_Witness ==
    /\ Len(orders) >= 2
    /\ orders[1] # orders[2]
    /\ alertMsg \in Rejections

-----------------------------------------------------------------------------
(* C10 *)

\* C10 (as claimed): once unsubscribeBars was called with the subscriberUID
\* of a subscription, its timer invokes onRealtimeCallback no more.
\* Violated: unsubscribeBars clears no timer.
C10_NoBarAfterUnsubscribe ==
    [][\A i \in DOMAIN timers :
          timers[i].unsubscribed => timers'[i].bars = timers[i].bars]_vars

-----------------------------------------------------------------------------
\* C11: only order execution mutates the ledger.  A step that changes
\* availableFunds, holdings or the order history is a step of
\* handleTradeExecution; rendering, navigation, the theme toggle, opening or
\* closing a modal, a change of an order filter and a tick of a datafeed
\* timer leave all three as they were, and the newest-first table of orders
\* is built without reordering the stored history.
C11_OnlyExecutionMutatesLedger ==
    [][/\ ledger' # ledger => handleTradeExecution
       /\ ordersTable' # ordersTable =>
              ordersTable' = Reverse(SelectSeq(orders',
                                 LAMBDA order : Matches(order, orderFilter')))
      ]_vars

\* three different orders in the history, shown newest first on the orders
\* module in dark mode with a chart open
C11_Witness ==
    /\ Len(orders) = 3
    /\ orders[1] # orders[3]
    /\ ordersTable = Reverse(orders)
    /\ activeModule = "orders"
    /\ isDark
    /\ activeChart \in Symbols
    /\ tradeModal = "flex"

-----------------------------------------------------------------------------
\* symbol, side, price and quantity of every order of the history
Trades == [i \in DOMAIN orders |->
              <<orders[i].symbol, orders[i].type, orders[i].price,
                orders[i].quantity>>]

FirstBuy == <<"AAPL", "BUY", 21420, 10>>
SecondBuy == <<"AAPL", "BUY", 22000, 5>>
FullSell == <<"AAPL", "SELL", 22500, 15>>

\* the ledger before the scenario and after each of its three orders
ScenarioStart ==
    /\ availableFunds = 10000000
    /\ DOMAIN holdings = {}
    /\ orders = << >>
AfterFirstBuy ==
    /\ availableFunds = 9785800
    /\ DOMAIN holdings = {"AAPL"}
    /\ holdings["AAPL"] = [quantity |-> 10, avgPrice |-> [n |-> 21420, d |-> 1]]
    /\ Trades = <<FirstBuy>>
AfterSecondBuy ==
    /\ availableFunds = 9675800
    /\ DOMAIN holdings = {"AAPL"}
    /\ holdings["AAPL"] =
          [quantity |-> 15, avgPrice |-> Quot(21420 * 10 + 22000 * 5, 15)]
    /\ Trades = <<FirstBuy, SecondBuy>>
AfterFullSell ==
    /\ availableFunds = 10013300
    /\ DOMAIN holdings = {}
    /\ Trades = <<FirstBuy, SecondBuy, FullSell>>

\* the form submitted for AAPL with the given side, quantity and price
Order(type, quantityField, priceField) ==
    /\ activeTrade = [symbol |-> "AAPL", type |-> type]
    /\ Submit(quantityField, priceField)

\* C12: the concrete scenario.  From funds 100000.00 and no holdings, BUY 10
\* AAPL at 214.20 leaves funds 97858.00 and AAPL {10, 214.20}; then BUY 5
\* AAPL at 220.00 leaves funds 96758.00 and AAPL {15, (214.20*10 + 220*5)/15};
\* then SELL 15 AAPL at 225.00 leaves funds 100133.00 and no AAPL holding,
\* and the history holds exactly these three orders, in this order.
C12_Scenario ==
    [][/\ (ScenarioStart /\
           Order("BUY", <<"1", "0">>, <<"2", "1", "4", ".", "2", "0">>))
          => AfterFirstBuy'
       /\ (AfterFirstBuy /\
           Order("BUY", <<"5">>, <<"2", "2", "0", ".", "0", "0">>))
          => AfterSecondBuy'
       /\ (AfterSecondBuy /\
           Order("SELL", <<"1", "5">>, <<"2", "2", "5", ".", "0", "0">>))
          => AfterFullSell'
      ]_vars

\* the ledger after the third order of the scenario
C12_Witness == AfterFullSell

-----------------------------------------------------------------------------
\* the step appends a SELL of fewer shares than the holding has
PartialSell ==
    /\ Len(orders') = Len(orders) + 1
    /\ LastOrder(orders').type = "SELL"
    /\ Held(LastOrder(orders').symbol)
    /\ LastOrder(orders').quantity < holdings[LastOrder(orders').symbol].quantity

\* C13: a partial SELL keeps the cost basis.  A successful SELL of fewer
\* shares than are held leaves the holding's avgPrice exactly as it was,
\* whatever the sale price, and takes the sold amount off its quantity.
C13_PartialSellKeepsAverage ==
    [][PartialSell =>
         LET sold == LastOrder(orders')
         IN  /\ sold.symbol \in DOMAIN holdings'
             /\ holdings'[sold.symbol] =
                   [quantity |-> holdings[sold.symbol].quantity - sold.quantity,
                    avgPrice |-> holdings[sold.symbol].avgPrice]
      ]_vars

\* a holding partly sold at a price other than its average
C13_Witness ==
    /\ orders # << >>
    /\ LET sold == LastOrder(orders)
       IN  /\ sold.type = "SELL"
           /\ Held(sold.symbol)
           /\ holdings[sold.symbol].avgPrice # [n |-> sold.price, d |-> 1]
           /\ SumQuantity({i \in OrdersOf(sold.symbol) : orders[i].type = "BUY"})
                 > holdings[sold.symbol].quantity

-----------------------------------------------------------------------------
\* the number of shares held of a symbol, none when it has no entry
HeldQuantity(held, symbol) ==
    IF symbol \in DOMAIN held THEN held[symbol].quantity ELSE 0

\* every record is an executed BUY or SELL, and no record is older than the
\* one before it
RecordsWellFormed ==
    /\ \A i \in DOMAIN orders :
          /\ orders[i].status = "Executed"
          /\ orders[i].type \in {"BUY", "SELL"}
    /\ \A i, j \in DOMAIN orders :
          i < j => orders[i].timestamp <= orders[j].timestamp

\* the record a step appends says what the step did to funds and holdings
RecordTellsTrade ==
    Len(orders') = Len(orders) + 1 =>
        LET r == LastOrder(orders')
            sign == IF r.type = "BUY" THEN 1 ELSE -1
        IN  /\ availableFunds' = availableFunds - sign * r.price * r.quantity
            /\ HeldQuantity(holdings', r.symbol) =
                  HeldQuantity(holdings, r.symbol) + sign * r.quantity
            /\ r.symbol = activeTrade.symbol
            /\ r.type = activeTrade.type
            /\ r.timestamp = now

\* C14: order record content.  Every record of the history has status
\* "Executed", side BUY or SELL, and the symbol, price and quantity of the
\* trade that was applied to funds and holdings; records are in execution
\* order, so timestamps never decrease along the history.
C14_OrderRecordContent == []RecordsWellFormed /\ [][RecordTellsTrade]_vars

\* a BUY and, at a later time, a SELL in the history
C14_Witness ==
    /\ Len(orders) >= 2
    /\ orders[1].type = "BUY"
    /\ orders[2].type = "SELL"
    /\ orders[1].timestamp < orders[2].timestamp

-----------------------------------------------------------------------------
\* the orders of one side for a symbol, and shares bought less shares sold
SideOf(symbol, type) == {i \in OrdersOf(symbol) : orders[i].type = type}
NetQuantity(symbol) ==
    SumQuantity(SideOf(symbol, "BUY")) - SumQuantity(SideOf(symbol, "SELL"))

\* every symbol of the page, of the holdings and of the history
SymbolsSeen ==
    Symbols \cup DOMAIN holdings \cup {orders[i].symbol : i \in DOMAIN orders}

\* C15: holdings agree with the order history.  For every symbol, the shares
\* bought less the shares sold in the history are the quantity of its
\* holding when it is held, and are 0 exactly when it has no holding.
C15_HoldingsMatchHistory ==
    \A s \in SymbolsSeen :
        /\ Held(s) => holdings[s].quantity = NetQuantity(s)
        /\ NetQuantity(s) = 0 <=> ~Held(s)

\* one symbol held, another bought and sold out
C15_Witness ==
    \E s, t \in Symbols :
        /\ Held(s)
        /\ ~Held(t)
        /\ SideOf(t, "BUY") # {}

-----------------------------------------------------------------------------
\* C16: available funds never go negative.  In every state reached from the
\* initial ledger by submissions that handleTradeExecution accepts or
\* rejects, whatever parseable price and quantity are typed,
\* availableFunds >= 0.
C16_FundsNeverNegative == availableFunds >= 0

-----------------------------------------------------------------------------
\* the active trade, the holdings and the history name initialized stocks
\* only, and renderPortfolio found state.stocks[symbol] for every holding
SymbolsKnown ==
    /\ activeTrade.symbol \in Symbols \cup {NULL}
    /\ DOMAIN holdings \subseteq Symbols
    /\ \A i \in DOMAIN orders : orders[i].symbol \in Symbols
    /\ ~portfolioView.thrown
    /\ DOMAIN portfolioView.rows = DOMAIN holdings

\* the active trade only changes to a symbol of state.stocks, and while it
\* has no symbol a submission is refused as invalid
ActiveSymbolSet ==
    /\ activeTrade' # activeTrade => activeTrade'.symbol \in Symbols
    /\ activeTrade.symbol = NULL =>
          /\ UNCHANGED ledger
          /\ alertMsg' \in {alertMsg, MsgInvalid}

\* C17: known symbols only.  The active trade symbol is only ever set, by
\* openTradeModal, to a symbol of state.stocks, or stays null, and then a
\* submission is rejected as invalid; so every key of holdings and every
\* order's symbol is an initialized stock, and renderPortfolio's lookup
\* state.stocks[symbol] is defined for every holding.
C17_KnownSymbolsOnly == []SymbolsKnown /\ [][ActiveSymbolSet]_vars

\* every stock of the page held and shown in the holdings table
C17_Witness ==
    /\ DOMAIN holdings = Symbols
    /\ ~portfolioView.thrown
    /\ DOMAIN portfolioView.rows = Symbols

-----------------------------------------------------------------------------
\* a trade leaves the holdings of every symbol but its own as they were
OtherHoldingsKept ==
    Len(orders') = Len(orders) + 1 =>
        \A t \in (DOMAIN holdings \cup DOMAIN holdings') \
                    {LastOrder(orders').symbol} :
            /\ t \in DOMAIN holdings
            /\ t \in DOMAIN holdings'
            /\ holdings'[t] = holdings[t]

\* a BUY removes no holding; a SELL creates none and lowers the quantity
SideMovesOneWay ==
    Len(orders') = Len(orders) + 1 =>
        LET r == LastOrder(orders')
        IN  IF r.type = "BUY"
            THEN /\ DOMAIN holdings \subseteq DOMAIN holdings'
                 /\ r.symbol \in DOMAIN holdings'
            ELSE /\ DOMAIN holdings' \subseteq DOMAIN holdings
                 /\ HeldQuantity(holdings', r.symbol)
                       < HeldQuantity(holdings, r.symbol)

\* C18: a successful trade on a symbol changes only that symbol.  The
\* holdings entries (quantity and avgPrice) of every other symbol are
\* unchanged by a BUY or SELL, as is baseCapital; a BUY never removes a
\* holding, and a SELL never creates one or raises a quantity.
C18_TradeTouchesOneSymbol == [][OtherHoldingsKept /\ SideMovesOneWay]_vars

\* one symbol sold out while another is held
C18_Witness ==
    /\ Len(orders) >= 2
    /\ LastOrder(orders).type = "SELL"
    /\ ~Held(LastOrder(orders).symbol)
    /\ \E t \in Symbols : Held(t)

-----------------------------------------------------------------------------
\* the time bucket of a bar, the buckets of the data and the bars of a bucket
Bucket(t, interval) == t \div (interval * 60000)
Buckets(data, interval) ==
    {Bucket(data[k].t, interval) : k \in DOMAIN data}
BarsOf(data, interval, bucket) ==
    {k \in DOMAIN data : Bucket(data[k].t, interval) = bucket}

RECURSIVE VolumeOf(_, _)
VolumeOf(bars, S) ==
    IF S = {} THEN 0
    ELSE LET k == CHOOSE x \in S : TRUE
         IN  bars[k].v + VolumeOf(bars, S \ {k})

\* aggregateData has returned, for an interval of at most 1 / of more than 1
ReturnedAsIs ==
    chart.pc = "done" /\ ~chart.interval.nan /\ chart.interval.v <= 1
ReturnedCandles ==
    chart.pc = "done" /\ ~chart.interval.nan /\ chart.interval.v > 1

\* one candle for each bucket, in time order, made of the bars of its bucket
CandlesRight ==
    /\ ReturnedAsIs => chart.returned = chart.data
    /\ ReturnedCandles =>
          LET data == chart.data
              interval == chart.interval.v
              candles == chart.returned
          IN  /\ Len(candles) = Cardinality(Buckets(data, interval))
              /\ \A j, k \in DOMAIN candles :
                    j < k => Bucket(candles[j].t, interval)
                                < Bucket(candles[k].t, interval)
              /\ \A j \in DOMAIN candles :
                    LET bars == BarsOf(data, interval,
                                       Bucket(candles[j].t, interval))
                    IN  /\ bars # {}
                        /\ candles[j].o = data[Min(bars)].o
                        /\ candles[j].c = data[Max(bars)].c
                        /\ candles[j].h = Max({data[b].h : b \in bars})
                        /\ candles[j].l = Min({data[b].l : b \in bars})
                        /\ candles[j].v = VolumeOf(data, bars)
              /\ VolumeOf(candles, DOMAIN candles) = VolumeOf(data, DOMAIN data)

\* every turn of the loop moves i forward, and never past the end of the data
LoopAdvances ==
    (chart.pc = "loop" /\ chart'.pc = "loop" /\ chart' # chart) =>
        /\ chart'.i > chart.i
        /\ chart'.i <= Len(chart.data)

\* C19: aggregateData(data, interval).  For interval <= 1 it returns the
\* input unchanged.  For interval > 1 on minute bars in ascending time it
\* terminates and returns one candle for each distinct bucket
\* floor(t / (interval * 60000)), in time order, with the open of the
\* bucket's first bar, the close of its last bar, the highest high, the
\* lowest low and the sum of the volumes; every bar is counted in exactly
\* one candle and the total volume is conserved.
C19_AggregateData == []CandlesRight /\ [][LoopAdvances]_vars

\* three minute bars in two candles of two minutes, the first candle closing
\* at another price than its first bar
C19_Witness ==
    /\ ReturnedCandles
    /\ chart.interval.v = 2
    /\ Len(chart.data) = 3
    /\ Len(chart.returned) = 2
    /\ chart.returned[1].v = chart.data[1].v + chart.data[2].v
    /\ chart.data[1].c # chart.data[2].c
    /\ chart.data[1].h # chart.data[2].h

=============================================================================
